---- MODULE Spec2Model ----
(***************************************************************************)
(* A model of the calendar event service of tana-sync-gcal: the Tana date  *)
(* notation parser and event time builder (handle-tana-date), the event    *)
(* service (createEvent's helpers, updateEvent, deleteEvent) and the       *)
(* delete route.                                                           *)
(*                                                                         *)
(* JavaScript strings are sequences of one-character strings.  The value   *)
(* `undefined` is the one-element sequence Undef, whose element is not a   *)
(* character, so that it is distinct from every string, the empty string   *)
(* included.                                                               *)
(***************************************************************************)
EXTENDS Naturals, Sequences, FiniteSets

VARIABLES
    store,      \* the calendar backend: calendar id -> the event's record there
    store0,     \* the backend as it was before any invocation
    lastUpd,    \* the record of the latest update call the backend applied
    pc,         \* per caller: where its invocation stands
    args,       \* per caller: the arguments of its invocation
    ev,         \* per caller: updateEvent's local `event`
    cur,        \* per caller: updateEvent's local `currentCalendarId`
    calls,      \* per caller: the backend calls it has made, in order
    result,     \* per caller: the text updateEvent returned
    success,    \* per caller: the boolean deleteEvent returned
    response,   \* per caller: the text the delete route answered
    err,        \* per caller: the error the invocation threw
    pin,        \* the input of a pure function under test
    pout        \* its output

vars == <<store, store0, lastUpd, pc, args, ev, cur, calls, result, success,
          response, err, pin, pout>>

svcVars == <<store, store0, lastUpd, pc, args, ev, cur, calls, result, success,
             response, err>>

(***************************************************************************)
(* Bounds of the model.                                                    *)
(***************************************************************************)
MaxFields == 3      \* longest field-selection list
MaxParts == 3       \* most '/'-separated parts in a notation's content

(***************************************************************************)
(* Strings.                                                                *)
(***************************************************************************)
Undef == <<"undefined">>

\* JavaScript truthiness of a string-or-undefined value.
Truthy(v) == v # Undef /\ v # <<>>

Digits == {"0", "1", "2", "3", "4", "5", "6", "7", "8", "9"}

\* What `.` of a regular expression does not match.
LineTerminators == {"\n", "\r"}

\* What String.prototype.trim removes (of the characters the model uses).
WhiteSpace == {" ", "\t", "\n", "\r"}

StartsWith(s, p) == Len(s) >= Len(p) /\ SubSeq(s, 1, Len(p)) = p

EndsWith(s, p) == Len(s) >= Len(p) /\ SubSeq(s, Len(s) - Len(p) + 1, Len(s)) = p

Includes(s, ch) == \E i \in 1..Len(s) : s[i] = ch

\* s.trim() is the empty string.
TrimIsEmpty(s) == \A i \in 1..Len(s) : s[i] \in WhiteSpace

\* The index of the first ch in s, or 0.
IndexOf(s, ch) ==
    IF Includes(s, ch)
    THEN CHOOSE i \in 1..Len(s) : s[i] = ch /\ \A j \in 1..(i - 1) : s[j] # ch
    ELSE 0

\* s.split(ch): every part between separators, empty parts included.
RECURSIVE Split(_, _)
Split(s, ch) ==
    IF ~Includes(s, ch)
    THEN <<s>>
    ELSE LET i == IndexOf(s, ch)
         IN  <<SubSeq(s, 1, i - 1)>> \o Split(SubSeq(s, i + 1, Len(s)), ch)

\* Array destructuring: the k-th element, or undefined.
Nth(parts, k) == IF k <= Len(parts) THEN parts[k] ELSE Undef

(***************************************************************************)
(* handle-tana-date: the notation parser.                                  *)
(***************************************************************************)
DatePrefix == <<"[", "[", "d", "a", "t", "e", ":">>
DateSuffix == <<"]", "]">>

\* /^\d{4}-\d{2}-\d{2}$/
TANA_DATE_REGEX(s) ==
    /\ Len(s) = 10
    /\ \A i \in {1, 2, 3, 4, 6, 7, 9, 10} : s[i] \in Digits
    /\ s[5] = "-" /\ s[8] = "-"

\* /^\d{4}-\d{2}-\d{2}T\d{2}:\d{2}$/
TANA_DATE_TIME_REGEX(s) ==
    /\ Len(s) = 16
    /\ \A i \in {1, 2, 3, 4, 6, 7, 9, 10, 12, 13, 15, 16} : s[i] \in Digits
    /\ s[5] = "-" /\ s[8] = "-" /\ s[11] = "T" /\ s[14] = ":"

\* /^\[\[date:(.+)\]\]$/ matches value.
NotationMatches(value) ==
    /\ StartsWith(value, DatePrefix)
    /\ EndsWith(value, DateSuffix)
    /\ Len(value) >= Len(DatePrefix) + 1 + Len(DateSuffix)
    /\ \A i \in (Len(DatePrefix) + 1)..(Len(value) - Len(DateSuffix)) :
           value[i] \notin LineTerminators

\* The group (.+) of a match.
NotationContent(value) ==
    SubSeq(value, Len(DatePrefix) + 1, Len(value) - Len(DateSuffix))

validateTanaDateValue(value) ==
    IF ~StartsWith(value, DatePrefix) \/ ~EndsWith(value, DateSuffix)
    THEN FALSE
    ELSE IF ~NotationMatches(value)
    THEN FALSE
    ELSE LET content == NotationContent(value)
         IN  IF TrimIsEmpty(content)
             THEN FALSE
             ELSE IF ~Includes(content, "/")
             THEN TANA_DATE_REGEX(content) \/ TANA_DATE_TIME_REGEX(content)
             ELSE LET parts == Split(content, "/")
                      startPart == Nth(parts, 1)
                      endPart == Nth(parts, 2)
                  IN  IF ~Truthy(startPart) \/ ~Truthy(endPart)
                      THEN FALSE
                      ELSE /\ (TANA_DATE_REGEX(startPart)
                                  \/ TANA_DATE_TIME_REGEX(startPart))
                           /\ (TANA_DATE_REGEX(endPart)
                                  \/ TANA_DATE_TIME_REGEX(endPart))

\* A faulty variant: the end is everything after the first '/'.
extractTanaDateInfoRest(date) ==
    LET content == IF NotationMatches(date) THEN NotationContent(date) ELSE date
        i == IndexOf(content, "/")
    IN  IF i = 0
        THEN [original |-> date, start |-> content, end |-> Undef]
        ELSE [original |-> date, start |-> SubSeq(content, 1, i - 1),
              end |-> SubSeq(content, i + 1, Len(content))]

extractTanaDateInfo(date) ==
    LET content == IF NotationMatches(date) THEN NotationContent(date) ELSE date
    IN  IF ~Includes(content, "/")
        THEN [original |-> date, start |-> content, end |-> Undef]
        ELSE LET parts == Split(content, "/")
             IN  [original |-> date, start |-> Nth(parts, 1), end |-> Nth(parts, 2)]

(***************************************************************************)
(* handle-tana-date: the event time builder.                               *)
(***************************************************************************)
Throws == [date |-> Undef, dateTime |-> Undef, timeZone |-> <<"throw">>]

\* A faulty variant: the seconds are attached to an all-day token too.
createEventDateTimeSeconds(dateTimeString, timeZone) ==
    IF TANA_DATE_TIME_REGEX(dateTimeString) \/ TANA_DATE_REGEX(dateTimeString)
    THEN [date |-> Undef, dateTime |-> dateTimeString \o <<":", "0", "0">>,
          timeZone |-> timeZone]
    ELSE Throws

createEventDateTime(dateTimeString, timeZone) ==
    IF TANA_DATE_TIME_REGEX(dateTimeString)
    THEN [date |-> Undef, dateTime |-> dateTimeString \o <<":", "0", "0">>,
          timeZone |-> timeZone]
    ELSE IF TANA_DATE_REGEX(dateTimeString)
    THEN [date |-> dateTimeString, dateTime |-> Undef, timeZone |-> timeZone]
    ELSE Throws

\* The range, or threw = TRUE when either point's construction throws.
buildEventDateTimeInfo(dateInfo, timeZone) ==
    LET start == createEventDateTime(dateInfo.start, timeZone)
        end == IF start = Throws THEN Throws
               ELSE IF Truthy(dateInfo.end)
               THEN createEventDateTime(dateInfo.end, timeZone)
               ELSE start
    IN  [threw |-> (start = Throws \/ end = Throws), start |-> start, end |-> end]

(***************************************************************************)
(* Event records.  An absent field is Undef; NoEvent is the falsy value    *)
(* (undefined) the backend's getEvent gives for a missing record.          *)
(***************************************************************************)
NoTime == [date |-> Undef, dateTime |-> Undef, timeZone |-> Undef]

NoEvent ==
    [id |-> Undef, summary |-> Undef, description |-> Undef, location |-> Undef,
     htmlLink |-> Undef, start |-> NoTime, end |-> NoTime]

NoDate == [original |-> Undef, start |-> Undef, end |-> Undef]

\* PartialEventData with no key.
NoData ==
    [name |-> Undef, description |-> Undef, location |-> Undef, date |-> NoDate,
     timeZone |-> Undef]

StringProperties == {"id", "summary", "description", "location", "htmlLink"}
ObjectProperties == {"start", "end"}

ObjectText ==
    <<"[", "o", "b", "j", "e", "c", "t", " ", "O", "b", "j", "e", "c", "t", "]">>

EtcUTC == <<"E", "t", "c", "/", "U", "T", "C">>

(***************************************************************************)
(* service.ts: buildTanaPaste.                                             *)
(***************************************************************************)
\* property === 'calendarId' ? calendarId : event[property], as `${value}`
\* prints it; a property the record does not have is undefined.
PropertyValue(event, calendarId, property) ==
    IF property = "calendarId" THEN calendarId
    ELSE IF property \in StringProperties THEN event[property]
    ELSE IF property \in ObjectProperties THEN ObjectText
    ELSE Undef

\* One step of the reduce: the accumulator after the field at `index`
\* (1-based) of a list of `length` fields.
PasteStep(acc, value, field, index, length) ==
    IF Truthy(value)
    THEN acc \o field \o <<":", ":">> \o value
             \o (IF length > 1 /\ index # length THEN <<"\n">> ELSE <<>>)
    ELSE acc

RECURSIVE PasteReduce(_, _, _, _, _)
PasteReduce(event, calendarId, fieldsToReturn, index, acc) ==
    IF index > Len(fieldsToReturn)
    THEN acc
    ELSE PasteReduce(event, calendarId, fieldsToReturn, index + 1,
             PasteStep(acc,
                       PropertyValue(event, calendarId,
                                     fieldsToReturn[index].property),
                       fieldsToReturn[index].field, index, Len(fieldsToReturn)))

buildTanaPaste(event, calendarId, fieldsToReturn) ==
    PasteReduce(event, calendarId, fieldsToReturn, 1, <<>>)

\* constants.ts
DEFAULT_FIELDS_TO_RETURN ==
    << [field |-> <<"E", "v", "e", "n", "t", " ", "U", "R", "L">>,
        property |-> "htmlLink"],
       [field |-> <<"E", "v", "e", "n", "t", " ", "I", "D">>,
        property |-> "id"],
       [field |-> <<"S", "y", "n", "c", "e", "d", " ", "C", "a", "l", "e", "n",
                    "d", "a", "r", " ", "I", "D">>,
        property |-> "calendarId"] >>

(***************************************************************************)
(* service.ts: updateEvent's merge of the sparse field set into the        *)
(* record (lines 153-194).                                                 *)
(***************************************************************************)
\* A faulty variant: an update is always submitted.
hasFieldsToUpdateAlways(data) == TRUE

\* Object.keys(data).length > 0: a key is present iff its value is defined.
hasFieldsToUpdate(data) ==
    \/ data.name # Undef
    \/ data.description # Undef
    \/ data.location # Undef
    \/ data.date # NoDate
    \/ data.timeZone # Undef

\* start.dateTime !== event.start?.dateTime || start.date !== event.start?.date
PointDiffers(built, current) ==
    built.dateTime # current.dateTime \/ built.date # current.date

\* A faulty variant: incoming fields are copied without the presence checks.
MergedEventUnchecked(event, data) ==
    [event EXCEPT !.summary = data.name, !.description = data.description,
                  !.location = data.location]

\* updatedEventData, given that buildEventDateTimeInfo does not throw.
MergedEvent(event, data) ==
    LET e1 == IF data.name # Undef /\ data.name # event.summary
              THEN [event EXCEPT !.summary = data.name] ELSE event
        e2 == IF data.description # Undef /\ data.description # event.description
              THEN [e1 EXCEPT !.description = data.description] ELSE e1
        e3 == IF data.location # Undef /\ data.location # event.location
              THEN [e2 EXCEPT !.location = data.location] ELSE e2
    IN  IF data.date = NoDate
        THEN e3
        ELSE LET built == buildEventDateTimeInfo(data.date,
                              IF Truthy(data.timeZone) THEN data.timeZone
                              ELSE EtcUTC)
                 e4 == IF PointDiffers(built.start, event.start)
                       THEN [e3 EXCEPT !.start = built.start, !.end = built.end]
                       ELSE e3
             IN  IF PointDiffers(built.end, event.end)
                 THEN [e4 EXCEPT !.end = built.end]
                 ELSE e4

\* buildEventDateTimeInfo throws inside the merge.
MergeThrows(data) ==
    /\ data.date # NoDate
    /\ buildEventDateTimeInfo(data.date, EtcUTC).threw

(***************************************************************************)
(* The calendar collaborator (google-calendar): one event, held by at most *)
(* one calendar.  Any call may fail with a backend error.                  *)
(***************************************************************************)
EventId == <<"a", "b", "c">>
CalA == <<"c", "a", "l", "A">>
CalB == <<"c", "a", "l", "B">>
Calendars == {CalA, CalB}

\* getEvent(calendarId, eventId) -> EventRecord | not-found
gcGetEvent(st, calendarId) == st[calendarId]

\* moveEvent: the store after the move; the moved record is returned.
gcMoveEvent(st, from, to) ==
    [k \in Calendars |-> IF k = to THEN st[from]
                         ELSE IF k = from THEN NoEvent
                         ELSE st[k]]

\* updateEvent(calendarId, eventId, fullRecord): the record is replaced.
gcUpdateEvent(st, calendarId, record) == [st EXCEPT ![calendarId] = record]

\* deleteEvent: the store after a successful deletion.
gcDeleteEvent(st, calendarId) == [st EXCEPT ![calendarId] = NoEvent]

\* One entry of a caller's log of backend calls.
Call(op, calendarId, to, record, ret, threw, ok) ==
    [op |-> op, cal |-> calendarId, to |-> to, rec |-> record, ret |-> ret,
     threw |-> threw, ok |-> ok]

NoArgs ==
    [op |-> "none", from |-> Undef, to |-> Undef, data |-> NoData,
     fieldsToReturn |-> <<>>]

(***************************************************************************)
(* service.ts: updateEvent, one action per backend call, each with the     *)
(* local computation that follows it up to the next call.                  *)
(***************************************************************************)
\* toCalendarId && toCalendarId !== fromCalendarId
MoveWanted(a) == Truthy(a.to) /\ a.to # a.from

\* A faulty variant: a missing record is not noticed.
NotFoundNever(event) == FALSE

\* !event, after the fetch.
NotFound(event) == event = NoEvent

\* A faulty variant: the record fetched before the move is kept.
EventKeptAfterMove(fetched, moved) == fetched

\* event = await gc.moveEventToAnotherCalendar(...)
EventAfterMove(fetched, moved) == moved

\* PUT /:eventId reaches updateEvent with validated arguments.
StartUpdate(c, inputs) ==
    /\ pc[c] = "idle"
    /\ \E a \in inputs :
          /\ a.op = "update"
          /\ args' = [args EXCEPT ![c] = a]
          /\ cur' = [cur EXCEPT ![c] = a.from]
    /\ pc' = [pc EXCEPT ![c] = "fetch"]
    /\ UNCHANGED <<store, store0, lastUpd, ev, calls, result, success,
                   response, err, pin, pout>>

\* What follows the fetch or the move when an update is not needed or is.
AfterMove(c, event, calendarId) ==
    IF hasFieldsToUpdate(args[c].data)
    THEN /\ pc' = [pc EXCEPT ![c] = "update"]
         /\ UNCHANGED result
    ELSE /\ pc' = [pc EXCEPT ![c] = "done"]
         /\ result' = [result EXCEPT ![c] =
                buildTanaPaste(event, calendarId, args[c].fieldsToReturn)]

\* Lines 130-139, and 141-154 when no move is wanted.
Fetch(c) ==
    /\ pc[c] = "fetch"
    /\ \E threw \in BOOLEAN :
          LET event == gcGetEvent(store, args[c].from)
          IN  /\ calls' = [calls EXCEPT ![c] = Append(@,
                     Call("get", args[c].from, Undef, NoEvent,
                          IF threw THEN NoEvent ELSE event, threw, "none"))]
              /\ IF threw
                 THEN /\ pc' = [pc EXCEPT ![c] = "failed"]
                      /\ err' = [err EXCEPT ![c] = "backend"]
                      /\ UNCHANGED <<ev, result>>
                 ELSE /\ ev' = [ev EXCEPT ![c] = event]
                      /\ IF NotFound(event)
                         THEN /\ pc' = [pc EXCEPT ![c] = "failed"]
                              /\ err' = [err EXCEPT ![c] = "notfound"]
                              /\ UNCHANGED result
                         ELSE /\ UNCHANGED err
                              /\ IF MoveWanted(args[c])
                                 THEN /\ pc' = [pc EXCEPT ![c] = "move"]
                                      /\ UNCHANGED result
                                 ELSE AfterMove(c, event, cur[c])
    /\ UNCHANGED <<store, store0, lastUpd, args, cur, success, response, pin,
                   pout>>

\* Lines 142-154.  The backend returns the moved record (so the re-fetch of
\* lines 156-158 is not taken), and fails when the source holds no record.
Move(c) ==
    /\ pc[c] = "move"
    /\ \E fails \in BOOLEAN :
          LET a == args[c]
              threw == fails \/ store[a.from] = NoEvent
              moved == store[a.from]
              event == EventAfterMove(ev[c], moved)
          IN  /\ calls' = [calls EXCEPT ![c] = Append(@,
                     Call("move", a.from, a.to, NoEvent,
                          IF threw THEN NoEvent ELSE moved, threw, "none"))]
              /\ IF threw
                 THEN /\ pc' = [pc EXCEPT ![c] = "failed"]
                      /\ err' = [err EXCEPT ![c] = "backend"]
                      /\ UNCHANGED <<store, ev, cur, result>>
                 ELSE /\ store' = gcMoveEvent(store, a.from, a.to)
                      /\ ev' = [ev EXCEPT ![c] = event]
                      /\ cur' = [cur EXCEPT ![c] = a.to]
                      /\ UNCHANGED err
                      /\ AfterMove(c, event, a.to)
    /\ UNCHANGED <<store0, lastUpd, args, success, response, pin, pout>>

\* Lines 160-204.
Update(c) ==
    /\ pc[c] = "update"
    /\ IF MergeThrows(args[c].data)
       THEN /\ pc' = [pc EXCEPT ![c] = "failed"]
            /\ err' = [err EXCEPT ![c] = "internal"]
            /\ UNCHANGED <<store, lastUpd, ev, calls, result>>
       ELSE \E fails \in BOOLEAN :
          LET updatedEventData == MergedEvent(ev[c], args[c].data)
              threw == fails \/ store[cur[c]] = NoEvent
          IN  /\ calls' = [calls EXCEPT ![c] = Append(@,
                     Call("update", cur[c], Undef, updatedEventData,
                          IF threw THEN NoEvent ELSE updatedEventData, threw,
                          "none"))]
              /\ IF threw
                 THEN /\ pc' = [pc EXCEPT ![c] = "failed"]
                      /\ err' = [err EXCEPT ![c] = "backend"]
                      /\ UNCHANGED <<store, lastUpd, ev, result>>
                 ELSE /\ store' = gcUpdateEvent(store, cur[c], updatedEventData)
                      /\ lastUpd' = updatedEventData
                      /\ ev' = [ev EXCEPT ![c] = updatedEventData]
                      /\ pc' = [pc EXCEPT ![c] = "done"]
                      /\ result' = [result EXCEPT ![c] =
                             buildTanaPaste(updatedEventData, cur[c],
                                            args[c].fieldsToReturn)]
                      /\ UNCHANGED err
    /\ UNCHANGED <<store0, args, cur, success, response, pin, pout>>

(***************************************************************************)
(* service.ts: deleteEvent, and the route that calls it.                   *)
(***************************************************************************)
StartDelete(c, inputs) ==
    /\ pc[c] = "idle"
    /\ \E a \in inputs :
          /\ a.op = "delete"
          /\ args' = [args EXCEPT ![c] = a]
    /\ pc' = [pc EXCEPT ![c] = "delete"]
    /\ UNCHANGED <<store, store0, lastUpd, ev, cur, calls, result, success,
                   response, err, pin, pout>>

\* A faulty variant: a deletion the backend reports as unsuccessful is thrown.
deleteEventThrowsOnFalse(ok) == IF ok = "true" THEN "true" ELSE "throw"

\* return await gc.deleteEvent(...): what deleteEvent returns, given what
\* the backend returned.
deleteEvent(ok) == ok

\* success ? `Event deleted successfully: ...` : `Failed to delete event: ...`
DeleteResponse(ok) ==
    IF ok = "true"
    THEN [text |-> "Event deleted successfully: ", eventId |-> EventId]
    ELSE [text |-> "Failed to delete event: ", eventId |-> EventId]

NoResponse == [text |-> "", eventId |-> Undef]

\* The backend deletes and reports true, reports false (an unsuccessful
\* deletion; the only report for a record that is not there), or throws.
DeleteCall(c) ==
    /\ pc[c] = "delete"
    /\ \E outcome \in {"true", "false", "throw"} :
          LET a == args[c]
              threw == outcome = "throw"
              ret == IF threw THEN "throw" ELSE deleteEvent(outcome)
          IN  /\ outcome = "true" => store[a.from] # NoEvent
              /\ calls' = [calls EXCEPT ![c] = Append(@,
                     Call("delete", a.from, Undef, NoEvent, NoEvent, threw,
                          IF threw THEN "none" ELSE outcome))]
              /\ store' = IF outcome = "true"
                          THEN gcDeleteEvent(store, a.from) ELSE store
              /\ IF ret = "throw"
                 THEN /\ pc' = [pc EXCEPT ![c] = "failed"]
                      /\ err' = [err EXCEPT ![c] = "backend"]
                      /\ UNCHANGED <<success, response>>
                 ELSE /\ pc' = [pc EXCEPT ![c] = "done"]
                      /\ success' = [success EXCEPT ![c] = ret]
                      /\ response' = [response EXCEPT ![c] = DeleteResponse(ret)]
                      /\ UNCHANGED err
    /\ UNCHANGED <<store0, lastUpd, args, ev, cur, result, pin, pout>>

(***************************************************************************)
(* The values the model draws its inputs from.                             *)
(***************************************************************************)
SeqsUpTo(S, n) == UNION {[1..k -> S] : k \in 0..n}

RECURSIVE JoinWith(_, _)
JoinWith(parts, sep) ==
    IF Len(parts) = 0 THEN <<>>
    ELSE IF Len(parts) = 1 THEN parts[1]
    ELSE parts[1] \o sep \o JoinWith(Tail(parts), sep)

Day1 == <<"2", "0", "2", "5", "-", "0", "6", "-", "1", "8">>
Day2 == <<"2", "0", "2", "5", "-", "0", "6", "-", "1", "9">>
Time1 == <<"2", "0", "2", "5", "-", "0", "6", "-", "1", "8", "T", "0", "8", ":",
           "0", "0">>
Time2 == <<"2", "0", "2", "5", "-", "0", "6", "-", "1", "9", "T", "0", "8", ":",
           "0", "0">>
ShortDay == <<"2", "0", "2", "5", "-", "6", "-", "1", "8">>
AsiaTokyo == <<"A", "s", "i", "a", "/", "T", "o", "k", "y", "o">>

Notation(content) == DatePrefix \o content \o DateSuffix

\* Strings offered to the recognizer: well-formed and malformed ones.
PartPool == {Day1, Time1, ShortDay, <<>>, <<" ">>, <<"\n">>}
PrefixPool == {DatePrefix, <<"[", "[", "d", "a", "t", ":">>, <<>>}
SuffixPool == {DateSuffix, <<"]">>}

NotationInputs ==
    {pre \o JoinWith(parts, <<"/">>) \o suf :
        pre \in PrefixPool, suf \in SuffixPool,
        parts \in SeqsUpTo(PartPool, MaxParts) \ {<<>>}}

\* Tokens offered to the time builder.
TokenPool == {Day1, Day2, Time1, Time2, ShortDay, <<>>}

DateInfoInputs ==
    {[original |-> Undef, start |-> s, end |-> e] :
        s \in TokenPool, e \in TokenPool \cup {Undef}}

Name1 == <<"n", "1">>
Name2 == <<"n", "2">>
Desc1 == <<"d", "1">>
Loc1 == <<"l", "1">>
Loc2 == <<"l", "2">>
Url == <<"u">>

FieldPool ==
    {[field |-> <<"E", "v", "e", "n", "t", " ", "I", "D">>, property |-> "id"],
     [field |-> <<"E", "v", "e", "n", "t", " ", "U", "R", "L">>,
      property |-> "htmlLink"],
     [field |-> <<"C", "a", "l">>, property |-> "calendarId"],
     [field |-> <<"E", "n", "d">>, property |-> "end"],
     [field |-> <<"X">>, property |-> "colorId"]}

\* Records as the backend holds them.
InitStarts ==
    {[date |-> Day1, dateTime |-> Undef, timeZone |-> EtcUTC],
     [date |-> Undef, dateTime |-> Time1 \o <<":", "0", "0">>,
      timeZone |-> AsiaTokyo]}

InitEnds ==
    {[date |-> Day2, dateTime |-> Undef, timeZone |-> EtcUTC],
     [date |-> Day2, dateTime |-> Undef, timeZone |-> AsiaTokyo],
     [date |-> Undef, dateTime |-> Time2 \o <<":", "0", "0">>,
      timeZone |-> AsiaTokyo]}

InitEvents ==
    {[id |-> EventId, summary |-> Name1, description |-> Desc1,
      location |-> Loc1, htmlLink |-> h, start |-> s, end |-> e] :
        h \in {Url, <<>>}, s \in InitStarts, e \in InitEnds}

RaceEvents ==
    {[id |-> EventId, summary |-> Name1, description |-> Desc1,
      location |-> Loc1, htmlLink |-> Url,
      start |-> [date |-> Day1, dateTime |-> Undef, timeZone |-> EtcUTC],
      end |-> [date |-> Day2, dateTime |-> Undef, timeZone |-> EtcUTC]]}

\* The sparse `date` fields the request schema lets through: notations the
\* recognizer accepts, decomposed.
ServiceNotations ==
    {Notation(c) : c \in {Day1, Time1, Day1 \o <<"/">> \o Day2,
                          Time1 \o <<"/">> \o Day2, Time1 \o <<"/">> \o Time2,
                          Day2 \o <<"/">> \o Day2}}

ServiceDates ==
    {extractTanaDateInfo(v) : v \in {n \in ServiceNotations :
                                        validateTanaDateValue(n)}}

FieldLists ==
    {DEFAULT_FIELDS_TO_RETURN,
     << [field |-> <<"E", "v", "e", "n", "t", " ", "I", "D">>, property |-> "id"],
        [field |-> <<"E", "v", "e", "n", "t", " ", "U", "R", "L">>,
         property |-> "htmlLink"] >>}

UpdateInputs ==
    {[op |-> "update", from |-> f, to |-> t, fieldsToReturn |-> fl,
      data |-> [name |-> n, description |-> d, location |-> l, date |-> dt,
                timeZone |-> tz]] :
        f \in Calendars, t \in Calendars \cup {Undef}, fl \in FieldLists,
        n \in {Undef, Name1, Name2}, d \in {Undef, <<>>},
        l \in {Undef, Loc1, Loc2}, dt \in ServiceDates \cup {NoDate},
        tz \in {Undef, AsiaTokyo}}

DeleteInputs ==
    {[op |-> "delete", from |-> f, to |-> Undef, fieldsToReturn |-> <<>>,
      data |-> NoData] : f \in Calendars}

RaceInputs ==
    {[op |-> "update", from |-> f, to |-> t,
      fieldsToReturn |-> DEFAULT_FIELDS_TO_RETURN,
      data |-> [name |-> n, description |-> Undef, location |-> l,
                date |-> NoDate, timeZone |-> Undef]] :
        f \in Calendars, t \in Calendars \cup {Undef},
        n \in {Undef, Name2}, l \in {Undef, Loc2}}

(***************************************************************************)
(* The pure functions, applied to drawn inputs.                            *)
(***************************************************************************)
NoRange == [threw |-> FALSE, start |-> NoTime, end |-> NoTime]

NoInput ==
    [kind |-> "none", event |-> NoEvent, calendarId |-> Undef,
     fieldsToReturn |-> <<>>, value |-> Undef, dateInfo |-> NoDate,
     timeZone |-> Undef]

NoOutput ==
    [kind |-> "none", text |-> Undef, accepted |-> FALSE, info |-> NoDate,
     range |-> NoRange]

PasteInputs ==
    {[NoInput EXCEPT !.kind = "paste", !.event = e, !.calendarId = k,
                     !.fieldsToReturn = fl] :
        e \in {[x EXCEPT !.htmlLink = h] :
                  x \in RaceEvents, h \in {Url, <<>>, Undef}},
        k \in {CalA, <<>>},
        fl \in SeqsUpTo(FieldPool, MaxFields)}

RecognizeInputs ==
    {[NoInput EXCEPT !.kind = "recognize", !.value = v] : v \in NotationInputs}

BuildInputs ==
    {[NoInput EXCEPT !.kind = "build", !.dateInfo = d, !.timeZone = tz] :
        d \in DateInfoInputs, tz \in {EtcUTC, AsiaTokyo}}

Serialize ==
    /\ pin.kind = "paste" /\ pout.kind = "none"
    /\ pout' = [NoOutput EXCEPT !.kind = "paste",
                   !.text = buildTanaPaste(pin.event, pin.calendarId,
                                           pin.fieldsToReturn)]
    /\ UNCHANGED <<svcVars, pin>>

Recognize ==
    /\ pin.kind = "recognize" /\ pout.kind = "none"
    /\ pout' = [NoOutput EXCEPT !.kind = "recognize",
                   !.accepted = validateTanaDateValue(pin.value)]
    /\ UNCHANGED <<svcVars, pin>>

BuildTimes ==
    /\ pin.kind = "build" /\ pout.kind = "none"
    /\ pout' = [NoOutput EXCEPT !.kind = "build",
                   !.range = buildEventDateTimeInfo(pin.dateInfo, pin.timeZone)]
    /\ UNCHANGED <<svcVars, pin>>

ParseInputs ==
    {[NoInput EXCEPT !.kind = "parse", !.value = v, !.timeZone = EtcUTC] :
        v \in NotationInputs}

\* TanaDateInfoSchema, then the time builder as createEvent and updateEvent
\* call it: refine(validateTanaDateValue), transform(extractTanaDateInfo)
\* only for a value that passed, buildEventDateTimeInfo on the result.
ParseAndBuild ==
    /\ pin.kind = "parse" /\ pout.kind = "none"
    /\ pout' = IF validateTanaDateValue(pin.value)
               THEN LET info == extractTanaDateInfo(pin.value)
                    IN  [NoOutput EXCEPT !.kind = "parse", !.accepted = TRUE,
                            !.info = info,
                            !.range = buildEventDateTimeInfo(info, pin.timeZone)]
               ELSE [NoOutput EXCEPT !.kind = "parse"]
    /\ UNCHANGED <<svcVars, pin>>

(***************************************************************************)
(* Specifications.                                                         *)
(***************************************************************************)
OneCaller == {"A"}
TwoCallers == {"A", "B"}

\* The event is in calendar CalA; no invocation has begun.
InitService(callers, events) ==
    /\ store \in {[k \in Calendars |-> IF k = CalA THEN e ELSE NoEvent] :
                     e \in events}
    /\ store0 = store
    /\ lastUpd = NoEvent
    /\ pc = [c \in callers |-> "idle"]
    /\ args = [c \in callers |-> NoArgs]
    /\ ev = [c \in callers |-> NoEvent]
    /\ cur = [c \in callers |-> Undef]
    /\ calls = [c \in callers |-> <<>>]
    /\ result = [c \in callers |-> Undef]
    /\ success = [c \in callers |-> "none"]
    /\ response = [c \in callers |-> NoResponse]
    /\ err = [c \in callers |-> "none"]

\* One caller: an update or a delete of the event.
Init ==
    /\ InitService(OneCaller, InitEvents)
    /\ pin = NoInput
    /\ pout = NoOutput

Next ==
    \E c \in OneCaller :
        \/ StartUpdate(c, UpdateInputs)
        \/ Fetch(c)
        \/ Move(c)
        \/ Update(c)
        \/ StartDelete(c, DeleteInputs)
        \/ DeleteCall(c)

Spec == Init /\ [][Next]_vars

\* Two callers updating the same event concurrently.
InitRace ==
    /\ InitService(TwoCallers, RaceEvents)
    /\ pin = NoInput
    /\ pout = NoOutput

NextRace ==
    \E c \in TwoCallers :
        \/ StartUpdate(c, RaceInputs)
        \/ Fetch(c)
        \/ Move(c)
        \/ Update(c)

SpecRace == InitRace /\ [][NextRace]_vars

\* The pure functions on drawn inputs.
InitPure ==
    /\ InitService(OneCaller, RaceEvents)
    /\ pin \in PasteInputs \cup RecognizeInputs \cup BuildInputs
               \cup ParseInputs
    /\ pout = NoOutput

NextPure == Serialize \/ Recognize \/ BuildTimes \/ ParseAndBuild

SpecPure == InitPure /\ [][NextPure]_vars

(***************************************************************************)
(* Properties.                                                             *)
(***************************************************************************)
\* The 'field::value' lines of the selected fields whose value is truthy.
RECURSIVE PasteLines(_, _, _)
PasteLines(event, calendarId, fields) ==
    IF Len(fields) = 0
    THEN <<>>
    ELSE LET value == PropertyValue(event, calendarId, fields[1].property)
             rest == PasteLines(event, calendarId, Tail(fields))
         IN  IF Truthy(value)
             THEN <<fields[1].field \o <<":", ":">> \o value>> \o rest
             ELSE rest

\* C1: the serialization is exactly the lines of the selected fields whose
\* value is truthy, in selection order, joined by single newlines: no
\* leading, trailing or doubled newline whichever fields are omitted.
C1_PasteIsJoinedLines ==
    pout.kind = "paste" =>
        pout.text = JoinWith(PasteLines(pin.event, pin.calendarId,
                                        pin.fieldsToReturn), <<"\n">>)

\* C1, the documented case: [Event ID/id, Event URL/htmlLink] over a record
\* with id "abc" and htmlLink "" gives exactly "Event ID::abc".
C1_DocumentedCase ==
    (/\ pout.kind = "paste"
     /\ pin.event.id = EventId /\ pin.event.htmlLink = <<>>
     /\ Len(pin.fieldsToReturn) = 2
     /\ pin.fieldsToReturn[1].property = "id"
     /\ pin.fieldsToReturn[2].property = "htmlLink")
    => pout.text = pin.fieldsToReturn[1].field \o <<":", ":">> \o EventId

\* The recognizer's contract: '[[date:' content ']]' with non-blank content
\* that is one token, or two tokens around its first '/'.
IsToken(s) == TANA_DATE_REGEX(s) \/ TANA_DATE_TIME_REGEX(s)

WellFormedNotation(value) ==
    /\ StartsWith(value, DatePrefix)
    /\ EndsWith(value, DateSuffix)
    /\ Len(value) >= Len(DatePrefix) + Len(DateSuffix)
    /\ LET content == NotationContent(value)
           i == IndexOf(content, "/")
       IN  /\ ~TrimIsEmpty(content)
           /\ IF i = 0
              THEN IsToken(content)
              ELSE /\ IsToken(SubSeq(content, 1, i - 1))
                   /\ IsToken(SubSeq(content, i + 1, Len(content)))

\* C3: a string is accepted iff it is a well-formed notation; a range with
\* a malformed endpoint, or with text after a second '/', is rejected.
C3_AcceptsExactlyWellFormed ==
    pout.kind = "recognize" => (pout.accepted <=> WellFormedNotation(pin.value))

\* The point the builder is to produce for a valid token.
PointOf(token, timeZone, point) ==
    /\ (point.date = Undef) # (point.dateTime = Undef)
    /\ IF TANA_DATE_TIME_REGEX(token)
       THEN /\ point.dateTime = token \o <<":", "0", "0">>
            /\ point.timeZone = timeZone
       ELSE point.date = token

\* C8: for valid tokens every produced point carries exactly one of date and
\* dateTime, a date-time token giving dateTime = token ':00' with the
\* supplied timezone and a date-only token giving date = token; start and
\* end are built independently, and an absent end gives end = start.
C8_OneShapePerPoint ==
    (/\ pout.kind = "build"
     /\ IsToken(pin.dateInfo.start)
     /\ (pin.dateInfo.end = Undef \/ IsToken(pin.dateInfo.end)))
    => /\ ~pout.range.threw
       /\ PointOf(pin.dateInfo.start, pin.timeZone, pout.range.start)
       /\ IF pin.dateInfo.end = Undef
          THEN pout.range.end = pout.range.start
          ELSE PointOf(pin.dateInfo.end, pin.timeZone, pout.range.end)

\* C8's case: a timed start with an all-day end has been built.
C8_MixedRangeBuilt ==
    /\ pout.kind = "build"
    /\ TANA_DATE_TIME_REGEX(pin.dateInfo.start)
    /\ TANA_DATE_REGEX(pin.dateInfo.end)
    /\ pout.range.start.dateTime # Undef
    /\ pout.range.end.date # Undef

\* s is the part of value that begins at index from.
LiteralAt(value, from, s) ==
    /\ from + Len(s) - 1 <= Len(value)
    /\ SubSeq(value, from, from + Len(s) - 1) = s

\* C11: for every string the recognizer accepts, the decomposition's start,
\* and its end if present, each match the date-only or the date-time
\* pattern and are the input's own characters (the start right after
\* '[[date:', the end right after the start and a '/'), so that
\* buildEventDateTimeInfo does not raise its 'Invalid date/time format'
\* error on it.
C11_ParserAndBuilderAgree ==
    (pout.kind = "parse" /\ pout.accepted) =>
        LET info == pout.info
            first == Len(DatePrefix) + 1
        IN  /\ info.original = pin.value
            /\ IsToken(info.start)
            /\ LiteralAt(pin.value, first, info.start)
            /\ info.end # Undef =>
                   /\ IsToken(info.end)
                   /\ pin.value[first + Len(info.start)] = "/"
                   /\ LiteralAt(pin.value, first + Len(info.start) + 1, info.end)
            /\ info.end = Undef => ~Includes(pin.value, "/")
            /\ ~pout.range.threw
            /\ pout.range.start # Throws /\ pout.range.end # Throws

\* C11's case: an accepted range was decomposed and built, and one whose
\* content goes on after a second '/' at that.
C11_RangeWithTailParsed ==
    /\ pout.kind = "parse" /\ pout.accepted
    /\ pout.info.end # Undef
    /\ Len(Split(NotationContent(pin.value), "/")) > 2
    /\ pout.range.start # NoTime /\ pout.range.end # NoTime

(***************************************************************************)
(* Properties of updateEvent and deleteEvent.                              *)
(***************************************************************************)
Callers == DOMAIN pc

Finished(c) == pc[c] \in {"done", "failed"}

LastCall(c) == calls[c][Len(calls[c])]

\* The caller's update call has been issued (it is its last call).
Submitted(c) ==
    /\ args[c].op = "update"
    /\ Len(calls[c]) >= 2
    /\ LastCall(c).op = "update"

\* The record the merge was diffed against: what the call before the update
\* (the fetch or the move) returned.
Diffed(c) == calls[c][Len(calls[c]) - 1].ret

\* The range rebuilt from the incoming date.
Rebuilt(c) ==
    buildEventDateTimeInfo(args[c].data.date,
        IF args[c].data.timeZone = Undef THEN EtcUTC ELSE args[c].data.timeZone)

\* C2: in the submitted record, start is replaced (by the rebuilt start) only
\* if the rebuilt start differs from the current start, and end is replaced
\* (by the rebuilt end) only if the rebuilt end differs from the current end,
\* "differs" being the comparison of date and dateTime the update makes: a
\* changed start does not rewrite an end that is itself unchanged.
C2_StartEndIndependent ==
    \A c \in Callers :
        (Submitted(c) /\ args[c].data.date # NoDate) =>
            LET sub == LastCall(c).rec
                now == Diffed(c)
            IN  /\ sub.start # now.start =>
                       /\ PointDiffers(Rebuilt(c).start, now.start)
                       /\ sub.start = Rebuilt(c).start
                /\ sub.end # now.end =>
                       /\ PointDiffers(Rebuilt(c).end, now.end)
                       /\ sub.end = Rebuilt(c).end

\* No move is asked for: no destination, or the source itself.
StaysPut(a) == a.to = Undef \/ a.to = a.from

\* C4: an update with an empty field set and no destination (or the source
\* as destination) makes exactly one backend call, the fetch, writes
\* nothing, and returns the serialization of the fetched record with the
\* source calendar id.
C4_EmptyUpdateOnlyFetches ==
    \A c \in Callers :
        (/\ args[c].op = "update" /\ args[c].data = NoData
         /\ StaysPut(args[c]) /\ Finished(c)) =>
            /\ Len(calls[c]) = 1
            /\ calls[c][1].op = "get" /\ calls[c][1].cal = args[c].from
            /\ store = store0
            /\ pc[c] = "done" =>
                   result[c] = buildTanaPaste(calls[c][1].ret, args[c].from,
                                              args[c].fieldsToReturn)

\* C4's case: such an update has returned its text.
C4_EmptyUpdateReturned ==
    \E c \in Callers :
        /\ args[c].op = "update" /\ args[c].data = NoData
        /\ StaysPut(args[c]) /\ pc[c] = "done"
        /\ Truthy(result[c])

\* The caller's fetch returned no record.
FetchedNothing(c) ==
    /\ args[c].op = "update"
    /\ Len(calls[c]) >= 1
    /\ ~calls[c][1].threw
    /\ calls[c][1].ret = NoEvent

\* C5: when the fetch returns no record the update fails with not-found,
\* having issued no move and no update, whatever the field set and the
\* destination; the backend is as it was.
C5_MissingRecordAborts ==
    \A c \in Callers :
        FetchedNothing(c) =>
            /\ pc[c] = "failed" /\ err[c] = "notfound"
            /\ Len(calls[c]) = 1
            /\ result[c] = Undef
            /\ store = store0

\* C5's case: a missing record was fetched for an update that carries fields
\* and a destination.
C5_MissingRecordFetched ==
    \E c \in Callers :
        /\ FetchedNothing(c)
        /\ args[c].data # NoData
        /\ args[c].to # Undef /\ args[c].to # args[c].from

\* The field set holds the name and nothing else.
NameOnly(data) ==
    /\ data.name # Undef
    /\ [data EXCEPT !.name = Undef] = NoData

\* C7: an update whose field set holds only the name submits a record equal
\* to the fetched (or moved) one in every field but the title, and the title
\* differs only when the incoming name differs from the current title, and
\* is then the incoming name.
C7_NameOnlyLeavesTheRest ==
    \A c \in Callers :
        (Submitted(c) /\ NameOnly(args[c].data)) =>
            LET sub == LastCall(c).rec
                now == Diffed(c)
            IN  /\ [sub EXCEPT !.summary = now.summary] = now
                /\ sub.summary # now.summary =>
                       /\ args[c].data.name # now.summary
                       /\ sub.summary = args[c].data.name

\* C7's case: a name-only update that changes the title was submitted.
C7_NameChanged ==
    \E c \in Callers :
        /\ Submitted(c) /\ NameOnly(args[c].data)
        /\ LastCall(c).rec.summary # Diffed(c).summary
        /\ pc[c] = "done"

\* C9: deleteEvent makes exactly one backend call, the delete of the given
\* calendar's event, and returns the backend's boolean unchanged: false is
\* returned, not thrown; it throws only when the backend call throws.
C9_DeleteReturnsBackendBoolean ==
    \A c \in Callers :
        (args[c].op = "delete" /\ Finished(c)) =>
            /\ Len(calls[c]) = 1
            /\ calls[c][1].op = "delete" /\ calls[c][1].cal = args[c].from
            /\ IF calls[c][1].threw
               THEN pc[c] = "failed" /\ err[c] = "backend"
               ELSE /\ pc[c] = "done" /\ err[c] = "none"
                    /\ success[c] = calls[c][1].ok

\* C9's case: the backend reported false and deleteEvent returned false.
C9_DeleteReturnedFalse ==
    \E c \in Callers :
        /\ args[c].op = "delete" /\ pc[c] = "done"
        /\ calls[c][1].ok = "false" /\ success[c] = "false"

\* A destination is given and is not the source.
Moving(a) == a.op = "update" /\ a.to # Undef /\ a.to # a.from

\* C6: with a destination that differs from the source the backend calls
\* are, in this order, the fetch from the source, exactly one move from the
\* source to the destination and, only if the field set is not empty,
\* exactly one update; the update is addressed to the destination, its
\* record is the merge diffed against the record the move returned, and the
\* text returned resolves 'calendarId' to the destination.
C6_MoveThenUpdateAtDestination ==
    \A c \in Callers :
        Moving(args[c]) =>
            LET a == args[c]
                log == calls[c]
                n == Len(log)
            IN  /\ n <= (IF a.data = NoData THEN 2 ELSE 3)
                /\ n >= 1 => log[1].op = "get" /\ log[1].cal = a.from
                /\ n >= 2 => /\ log[2].op = "move"
                             /\ log[2].cal = a.from /\ log[2].to = a.to
                /\ n >= 3 => /\ log[3].op = "update"
                             /\ log[3].cal = a.to
                             /\ log[3].rec = MergedEvent(log[2].ret, a.data)
                /\ pc[c] = "done" =>
                       /\ n = (IF a.data = NoData THEN 2 ELSE 3)
                       /\ result[c] =
                              buildTanaPaste(log[n].ret, a.to, a.fieldsToReturn)

\* C6's case: a move-and-update is done, and the record its move returned
\* was no longer the one it had fetched.
C6_MovedRecordDiffersFromFetched ==
    \E c \in Callers :
        /\ Moving(args[c]) /\ pc[c] = "done"
        /\ Len(calls[c]) = 3
        /\ calls[c][1].ret # calls[c][2].ret

FieldNames == {"name", "description", "location"}

RecordField(f) == IF f = "name" THEN "summary" ELSE f

\* C10: fetch-then-update is not transactional.  Every update submits a full
\* copy of the record the caller holds, carrying that copy's value of every
\* field its field set leaves out; the backend's record is the one of the
\* latest update applied (last write wins), and no caller fails for the
\* conflict: the only failures are a missing record at the fetch and a
\* failing backend call.  The lost update itself is the state
\* C10_LostUpdate.
C10_LastWriteWins ==
    /\ lastUpd # NoEvent => \E k \in Calendars : store[k] = lastUpd
    /\ \A c \in Callers :
          /\ (Submitted(c) /\ ~LastCall(c).threw) =>
                 /\ pc[c] = "done" /\ err[c] = "none"
                 /\ \A f \in FieldNames :
                        args[c].data[f] = Undef =>
                            LastCall(c).rec[RecordField(f)] =
                                Diffed(c)[RecordField(f)]
                 /\ \A f \in FieldNames :
                        args[c].data[f] # Undef =>
                            LastCall(c).rec[RecordField(f)] = args[c].data[f]
          /\ pc[c] = "failed" =>
                 \/ err[c] = "notfound" /\ FetchedNothing(c)
                 \/ err[c] = "backend" /\ LastCall(c).threw

\* C10's case: A's update set the name, B's later update, computed from the
\* record B fetched before it, changed the location and carried the stale
\* name; both returned without error and the backend holds B's record.
C10_LostUpdate ==
    /\ pc = [c \in TwoCallers |-> "done"]
    /\ err = [c \in TwoCallers |-> "none"]
    /\ Submitted("A") /\ Submitted("B")
    /\ args["A"].data.name = Name2
    /\ LastCall("A").rec.summary = Name2
    /\ args["B"].data.name = Undef /\ args["B"].data.location = Loc2
    /\ store[CalA] = LastCall("B").rec
    /\ store[CalA].summary = Name1
    /\ store[CalA].location = Loc2

====
